---- MODULE Spec2Model ----
(***************************************************************************)
(* State-machine model of the portfolio front-end script.  The repository  *)
(* holds two versions of the same DOMContentLoaded handler:                *)
(*   version 1  src/static/js/main.js   (single window.scrollTo)           *)
(*   version 2  src/unnamed/part_000    (scrollIntoView + delayed scrollBy)*)
(* One action stands for one event handler (or browser callback) run to    *)
(* completion on the single UI thread.                                     *)
(*                                                                         *)
(* Units: lengths are CSS pixels, timestamps are milliseconds.  Animation  *)
(* frames are delivered at timestamps that are multiples of PixelMs, the   *)
(* time the carousel needs for one pixel at the default speed, so that the *)
(* floating point product speed * dt of the source is an exact integer.    *)
(***************************************************************************)
EXTENDS Integers, Sequences, FiniteSets

\* ---------------------------------------------------------------- bounds
MaxImages == 2      \* longest CAROUSEL_IMAGES list
MaxItemWidth == 2   \* widest carousel item the layout produces (px)
MaxMargin == 1      \* largest margin-right of a carousel item (px)
MaxTicks == 6       \* last frame timestamp, in units of PixelMs
MaxClicks == 2      \* nav-link clicks that resolve to a target
MaxScrollY == 300   \* scroll range of the document (px)
MinStride == 40     \* shortest remaining distance a smooth scroll still halves (px)

\* ------------------------------------------------------ program constants
DefaultSpeed == 40      \* let speed = 40
MsPerSecond == 1000     \* (now - lastTime) / 1000
DefaultOffset == 12     \* let offset = 12
BreathingRoom == 8      \* sidebar height + 8
SidebarHeight == 64     \* "height ~64px"

PixelMs == MsPerSecond \div DefaultSpeed

\* A JavaScript value that may be undefined: no value, or the value v.
Undefined == <<>>
Defined(v) == <<v>>
Null == "null"
NoHref == "<no href>"

\* The URLs the host page may inject, in order.
Gallery == <<"a.jpg", "b.jpg", "c.jpg", "d.jpg">>

\* window.CAROUSEL_IMAGES as the host page defines it (or fails to).
ImageLists == {Undefined} \cup {Defined(SubSeq(Gallery, 1, n)) : n \in 0..MaxImages}

\* href attributes of the page's .nav-link anchors.
Hrefs == {"#about", "#projects", "#gone", "#", "/cv.pdf", NoHref}

\* Elements of the document that carry an id, with the document position of
\* their top edge.
Targets == {"#about", "#projects"}
TargetTop(h) == IF h = "#about" THEN 100 ELSE 200

\* Layouts: the width and the margin-right the style sheet gives every
\* carousel item.
Layouts == [width : 0..MaxItemWidth, margin : 0..MaxMargin]

\* The layout of a page whose track holds no items.
NoLayout == [width |-> 0, margin |-> 0]

VARIABLES
  version,        \* 1: static/js/main.js, 2: unnamed/part_000
  sidebarExists,  \* document.getElementById('sidebar') # null
  toggleExists,   \* document.getElementById('sidebarToggle') # null
  trackExists,    \* document.getElementById('carouselTrack') # null
  images,         \* window.CAROUSEL_IMAGES
  isTopBar,       \* the sidebar spans the top (v1 computed style, v2 media query)
  smoothScrollBy, \* window.scrollBy accepts an options object (v2 try/catch)
  pc,             \* "loading" until DOMContentLoaded has run
  listeners,      \* event listeners registered so far
  open,           \* sidebar.classList.contains('open')
  focus,          \* document.activeElement: "body" or "navlink"
  error,          \* exception raised by the last handler that threw
  trackItems,     \* img.src of the children of the track, in order
  speed,
  offset,
  lastTime,
  halfWidth,
  transform,      \* track.style.transform: Undefined or Defined(x-translation)
  rafQueue,       \* animation-frame callbacks waiting for the next frame
  timers,         \* pending setTimeout callbacks: [href, offset], oldest first
  scrollY,        \* window.scrollY
  scrollDest,     \* destination of the ongoing smooth scroll (scrollY at rest)
  hash,           \* location.hash
  scheduled,      \* history: every timer ever scheduled, in click order
  fired,          \* history: every timer callback that has run, in order
  toggles,        \* history: toggles since load / the last resolved nav click
  hovering,       \* history: the last hover event on the track was a mouseenter
  lastStep,       \* history: <<>>, or what the last step did: [hovering, wrapped]
  inRange         \* history: every step so far ended with |offset| < halfWidth

domVars == <<version, sidebarExists, toggleExists, trackExists, images, smoothScrollBy>>
carouselVars == <<trackItems, speed, offset, lastTime, halfWidth, transform, rafQueue,
                  hovering, lastStep, inRange>>
navVars == <<open, focus, timers, scrollY, scrollDest, hash, scheduled, fired, toggles>>
vars == <<domVars, isTopBar, pc, listeners, error, carouselVars, navVars>>

\* ------------------------------------------------------------ helpers
Abs(x) == IF x < 0 THEN -x ELSE x

Min(a, b) == IF a < b THEN a ELSE b

Max(a, b) == IF a > b THEN a ELSE b

\* The browser clamps every scroll position to the document's scroll range.
Clamp(y) == Max(0, Min(MaxScrollY, y))

\* Variant of concat: the list is not duplicated.
concatOnce(a, b) == a

\* images.concat(images)
concat(a, b) == a \o b

\* window.CAROUSEL_IMAGES || []
imagesOrEmpty(v) == IF v = Undefined THEN <<>> ELSE v[1]

\* getHalfWidth: sum of width + margin-right over the first half of the items.
RECURSIVE SumWidths(_, _)
SumWidths(layout, count) ==
  IF count = 0 THEN 0
  ELSE SumWidths(layout, count - 1) + layout.width + layout.margin

getHalfWidth(items, layout) == SumWidths(layout, Len(items) \div 2)

\* speed * dt with dt = (now - lastTime) / 1000
Advance(spd, now, last) == (spd * (now - last)) \div MsPerSecond

\* Frame timestamps up to tick t.
Timestamps(t) == {k * PixelMs : k \in 0..t}

\* ------------------------------------------------------------ initial state
Init ==
  /\ version \in {1, 2}
  /\ sidebarExists \in BOOLEAN
  /\ toggleExists \in BOOLEAN
  /\ trackExists \in BOOLEAN
  /\ images \in ImageLists
  /\ isTopBar \in BOOLEAN
  /\ smoothScrollBy \in BOOLEAN
  /\ pc = "loading"
  /\ listeners = {}
  /\ open = FALSE
  /\ focus = "body"
  /\ error = "none"
  /\ trackItems = <<>>
  /\ speed = 0
  /\ offset = 0
  /\ lastTime = 0
  /\ halfWidth = 0
  /\ transform = Undefined
  /\ rafQueue = <<>>
  /\ timers = <<>>
  /\ scrollY = 0
  /\ scrollDest = 0
  /\ hash = ""
  /\ scheduled = <<>>
  /\ fired = <<>>
  /\ toggles = 0
  /\ hovering = FALSE
  /\ lastStep = <<>>
  /\ inRange = TRUE

\* Variant of requestAnimationFrame: the callback is queued twice.
requestAnimationFrameTwice(queue, callback) == Append(Append(queue, callback), callback)

\* requestAnimationFrame(callback): one more callback for the next frame.
requestAnimationFrame(queue, callback) == Append(queue, callback)

\* ------------------------------------------------------------ setup
\* Whether the carousel block of the DOMContentLoaded handler runs.
carouselEnabled == trackExists /\ Len(imagesOrEmpty(images)) > 0

\* The DOMContentLoaded handler.  layout is what the browser measures for the
\* freshly appended items; performance.now() is taken as the time origin.  The
\* page is taken to hold .nav-link anchors inside the sidebar markup, so the
\* click and keydown listeners are always registered.
DOMContentLoaded(layout) ==
  /\ pc = "loading"
  /\ pc' = "ready"
  /\ IF carouselEnabled
     THEN /\ trackItems' = concat(imagesOrEmpty(images), imagesOrEmpty(images))
          /\ speed' = DefaultSpeed
          /\ offset' = 0
          /\ lastTime' = 0
          /\ halfWidth' = getHalfWidth(trackItems', layout)
          /\ rafQueue' = requestAnimationFrame(rafQueue, "step")
          /\ listeners' = {"click", "keydown"}
                            \cup (IF toggleExists THEN {"toggle"} ELSE {})
                            \cup {"resize", "mouseenter", "mouseleave"}
     ELSE /\ listeners' = {"click", "keydown"}
                            \cup (IF toggleExists THEN {"toggle"} ELSE {})
          /\ UNCHANGED <<trackItems, speed, offset, lastTime, halfWidth, rafQueue>>
  /\ UNCHANGED <<domVars, isTopBar, error, transform, hovering, lastStep, inRange, navVars>>

\* ------------------------------------------------------------ carousel
\* Variant of wrap: the comparison is strict (> instead of >=).
wrapStrict(off, half) == IF Abs(off) > half THEN off + half ELSE off

\* The wrap of step: one half-width is added back when the track has moved
\* through half of the duplicated list.
wrap(off, half) == IF Abs(off) >= half THEN off + half ELSE off

\* step(now): the animation-frame callback.
step(now) ==
  /\ rafQueue # <<>>
  /\ Head(rafQueue) = "step"
  /\ now >= lastTime
  /\ lastTime' = now
  /\ offset' = wrap(offset - Advance(speed, now, lastTime), halfWidth)
  /\ transform' = Defined(offset')
  /\ rafQueue' = requestAnimationFrame(Tail(rafQueue), "step")
  /\ lastStep' = [hovering |-> hovering,
                   wrapped |-> Abs(offset - Advance(speed, now, lastTime)) >= halfWidth]
  /\ inRange' = (inRange /\ Abs(offset') < halfWidth)
  /\ UNCHANGED <<domVars, isTopBar, pc, listeners, error, trackItems, speed,
                 halfWidth, hovering, navVars>>

\* The window resize event: the layout changes (layout is what getHalfWidth
\* measures afterwards, topBar is the new state of the media query) and the
\* resize listener, if registered, runs.
resize(layout, topBar) ==
  /\ pc = "ready"
  /\ isTopBar' = topBar
  /\ halfWidth' = IF "resize" \in listeners
                  THEN getHalfWidth(trackItems, layout)
                  ELSE halfWidth
  /\ UNCHANGED <<domVars, pc, listeners, error, trackItems, speed, offset,
                 lastTime, transform, rafQueue, hovering, lastStep, inRange, navVars>>

\* Variant of mouseenter: the handler leaves the speed alone.
mouseenterKeepsSpeed ==
  /\ "mouseenter" \in listeners
  /\ hovering' = TRUE
  /\ UNCHANGED <<domVars, isTopBar, pc, listeners, error, trackItems, speed, offset,
                 lastTime, halfWidth, transform, rafQueue, lastStep, inRange, navVars>>

mouseenter ==
  /\ "mouseenter" \in listeners
  /\ speed' = 0
  /\ hovering' = TRUE
  /\ UNCHANGED <<domVars, isTopBar, pc, listeners, error, trackItems, offset,
                 lastTime, halfWidth, transform, rafQueue, lastStep, inRange, navVars>>

mouseleave ==
  /\ "mouseleave" \in listeners
  /\ speed' = DefaultSpeed
  /\ hovering' = FALSE
  /\ UNCHANGED <<domVars, isTopBar, pc, listeners, error, trackItems, offset,
                 lastTime, halfWidth, transform, rafQueue, lastStep, inRange, navVars>>

\* ------------------------------------------------------------ navigation
\* href.charAt(0)
charAt0(href) == IF href \in {"#about", "#projects", "#gone", "#"} THEN "#" ELSE "/"

\* document.querySelector(href): the element, Null when nothing matches, or a
\* SyntaxError when href is no valid selector.  A missing href attribute is
\* the selector "null", which matches nothing.
querySelector(href) ==
  IF href \in {"#", "/cv.pdf"} THEN "SyntaxError"
  ELSE IF href \in Targets THEN href
  ELSE Null

\* target.getBoundingClientRect().top
rectTop(target) == TargetTop(target) - scrollY

\* The scroll offset of the click handler: 12, or the sidebar's height + 8
\* when the sidebar exists and acts as a top bar.
getSidebarAndOffset ==
  IF sidebarExists /\ isTopBar THEN SidebarHeight + BreathingRoom ELSE DefaultOffset

\* Variant of closeSidebar: a nav-link click leaves the sidebar as it is.
closeSidebarNever(isOpen) == isOpen

\* if (sidebar && sidebar.classList.contains('open')) sidebar.classList.remove('open')
closeSidebar(isOpen) == IF sidebarExists /\ isOpen THEN FALSE ELSE isOpen

\* Variant of setTimeout: a new timer replaces the pending ones (clearTimeout).
setTimeoutReplacing(queue, callback) == <<callback>>

\* Variant of setTimeout: the newest timer runs first.
setTimeoutFront(queue, callback) == <<callback>> \o queue

\* setTimeout(callback, 320): callbacks with equal delays run in call order.
setTimeout(queue, callback) == Append(queue, callback)

\* Version 1 click handler of a .nav-link with the given href.
onNavLinkClick1(href) ==
  LET target == querySelector(href) IN
  IF target = "SyntaxError"
  THEN /\ error' = "SyntaxError"
       /\ UNCHANGED <<open, timers, scrollY, scrollDest, scheduled, toggles>>
  ELSE IF target = Null
  THEN UNCHANGED <<error, open, timers, scrollY, scrollDest, scheduled, toggles>>
  ELSE /\ scrollDest' = Clamp(scrollY + rectTop(target) - getSidebarAndOffset)
       /\ open' = closeSidebar(open)
       /\ toggles' = 0
       /\ UNCHANGED <<error, timers, scrollY, scheduled>>

\* Version 2 click handler (onNavLinkClick).  e.currentTarget is set whenever
\* a listener runs, so the first guard never returns.
onNavLinkClick2(href) ==
  IF href = NoHref \/ charAt0(href) # "#"
  THEN UNCHANGED <<error, open, timers, scrollY, scrollDest, scheduled, toggles>>
  ELSE LET target == querySelector(href) IN
  IF target = "SyntaxError"
  THEN /\ error' = "SyntaxError"
       /\ UNCHANGED <<open, timers, scrollY, scrollDest, scheduled, toggles>>
  ELSE IF target = Null
  THEN UNCHANGED <<error, open, timers, scrollY, scrollDest, scheduled, toggles>>
  ELSE LET callback == [href |-> href, offset |-> getSidebarAndOffset] IN
       /\ scrollDest' = Clamp(scrollY + rectTop(target))
       /\ timers' = setTimeout(timers, callback)
       /\ scheduled' = Append(scheduled, callback)
       /\ open' = closeSidebar(open)
       /\ toggles' = 0
       /\ UNCHANGED <<error, scrollY>>

\* A click on the .nav-link with the given href.
onNavLinkClick(href) ==
  /\ "click" \in listeners
  /\ IF version = 1 THEN onNavLinkClick1(href) ELSE onNavLinkClick2(href)
  /\ UNCHANGED <<domVars, isTopBar, pc, listeners, focus, hash, fired, carouselVars>>

\* keydown on a sidebar link: Enter activates the link through this.click().
keydown(href, key) ==
  /\ "keydown" \in listeners
  /\ IF key = "Enter" THEN onNavLinkClick(href) ELSE UNCHANGED vars

\* The offset a timer callback scrolls by: the one captured by its click.
adjustment(callback) == callback.offset

\* The callback of the 320 ms timer of version 2.  A scroll call replaces the
\* ongoing smooth scroll and scrollBy is relative to the current position;
\* history.replaceState exists.
timeout ==
  /\ timers # <<>>
  /\ LET callback == Head(timers)
         top == Clamp(scrollY - adjustment(callback)) IN
       /\ IF smoothScrollBy
          THEN scrollDest' = top /\ UNCHANGED scrollY
          ELSE scrollY' = top /\ scrollDest' = top
       /\ hash' = callback.href
       /\ timers' = Tail(timers)
       /\ fired' = Append(fired, [href |-> callback.href, offset |-> adjustment(callback)])
  /\ UNCHANGED <<domVars, isTopBar, pc, listeners, open, focus, error, scheduled,
                 toggles, carouselVars>>

\* The browser advances the ongoing smooth scroll: half of the remaining
\* distance (while that is at least MinStride), or all of it.
scrollAnimate(finish) ==
  /\ scrollY # scrollDest
  /\ finish \/ Abs(scrollDest - scrollY) >= MinStride
  /\ scrollY' = IF finish THEN scrollDest ELSE scrollY + (scrollDest - scrollY) \div 2
  /\ UNCHANGED <<domVars, isTopBar, pc, listeners, open, focus, error, timers,
                 scrollDest, hash, scheduled, fired, toggles, carouselVars>>

\* sidebar.classList.toggle('open')
toggle(isOpen) == ~isOpen

\* The click handler of the toggle button.
sidebarToggleClick ==
  /\ "toggle" \in listeners
  /\ IF ~sidebarExists
     THEN /\ error' = IF version = 1 THEN "TypeError" ELSE error
          /\ UNCHANGED <<open, focus, toggles>>
     ELSE /\ open' = toggle(open)
          /\ toggles' = 1 - toggles
          /\ focus' = IF version = 2 /\ open' THEN "navlink" ELSE focus
          /\ error' = error
  /\ UNCHANGED <<domVars, isTopBar, pc, listeners, timers, scrollY, scrollDest,
                 hash, scheduled, fired, carouselVars>>

\* ------------------------------------------------------------ navigation spec
InitNav ==
  /\ Init
  /\ ~trackExists
  /\ images = Undefined

NextNav ==
  \/ DOMContentLoaded(NoLayout)
  \/ \E href \in Hrefs : Len(scheduled) < MaxClicks /\ onNavLinkClick(href)
  \/ \E href \in Hrefs, key \in {"Enter", "Tab"} :
       Len(scheduled) < MaxClicks /\ keydown(href, key)
  \/ sidebarToggleClick
  \/ timeout
  \/ \E finish \in BOOLEAN : scrollAnimate(finish)
  \/ \E topBar \in BOOLEAN : resize(NoLayout, topBar)

SpecNav == InitNav /\ [][NextNav]_vars

\* The event loop runs a timer callback that is due.
FairNav == SpecNav /\ WF_vars(timeout)

\* ------------------------------------------------------------ carousel spec
\* The carousel with the click handlers of version 1 beside it (the carousel
\* block is the same text in both versions).
InitCarousel ==
  /\ Init
  /\ version = 1
  /\ sidebarExists /\ toggleExists /\ ~isTopBar /\ smoothScrollBy

NextCarousel ==
  \/ \E layout \in Layouts : DOMContentLoaded(layout)
  \/ \E now \in Timestamps(MaxTicks) : step(now)
  \/ \E layout \in Layouts : resize(layout, isTopBar)
  \/ mouseenter
  \/ mouseleave
  \/ \E href \in Hrefs : onNavLinkClick(href)
  \/ sidebarToggleClick

SpecCarousel == InitCarousel /\ [][NextCarousel]_vars

\* ------------------------------------------------------------ steady carousel
\* The carousel under the assumptions of a steady display: the half-width is
\* positive and never re-measured, and no frame advances the track by a whole
\* half-width or more.
NextSteady ==
  \/ \E layout \in Layouts : DOMContentLoaded(layout) /\ halfWidth' > 0
  \/ \E now \in Timestamps(MaxTicks) :
       step(now) /\ Advance(speed, now, lastTime) < halfWidth
  \/ mouseenter
  \/ mouseleave

SpecSteady == InitCarousel /\ [][NextSteady]_vars

\* ------------------------------------------------------------ properties
\* A frame: some execution of step.
Frame == \E now \in Timestamps(MaxTicks) : step(now)

\* The carousel block of the handler has run.
carouselRunning == pc = "ready" /\ carouselEnabled

\* C1: after each execution of step the offset written to the transform lies
\* strictly within one half-track-width of zero, |offset| < halfWidth, for any
\* frame interval and any re-measured half-width.  (Stated for a positive
\* half-width: no offset satisfies the bound when the items measure 0 px.)
C1_OffsetWithinHalfWidth ==
  [][(Frame /\ halfWidth > 0) => Abs(offset') < halfWidth']_vars

\* C2 (as stated): between a mouseenter and the next mouseleave every frame
\* leaves the offset unchanged, whatever resize events occur in between.
\* (Stated for runs in which every step so far has kept |offset| < halfWidth,
\* so that a violation does not rest on an oversized frame.)
C2_HoverFreezesOffset ==
  [][(Frame /\ hovering /\ inRange) => offset' = offset]_vars

\* C2 (amended): while the pointer hovers the speed is 0 and a frame leaves the
\* offset unchanged when |offset| < halfWidth and adds exactly halfWidth to it
\* otherwise; a mouseleave sets the speed to 40 again, and from then on a frame
\* that does not wrap never increases the offset and decreases it by 40 px/s.
C2_HoverPausesUpToWrap ==
  /\ [](carouselRunning => speed = (IF hovering THEN 0 ELSE DefaultSpeed))
  /\ [][(Frame /\ hovering /\ Abs(offset) < halfWidth)
          => (offset' = offset /\ transform' = Defined(offset))]_vars
  /\ [][(Frame /\ hovering /\ Abs(offset) >= halfWidth)
          => offset' = offset + halfWidth]_vars
  /\ [][mouseleave => (speed' = DefaultSpeed /\ offset' = offset)]_vars
  /\ [][(Frame /\ ~hovering /\ ~lastStep'.wrapped)
          => offset' * MsPerSecond = offset * MsPerSecond
                                       - DefaultSpeed * (lastTime' - lastTime)]_vars

\* C2 witness: a frame has run while the pointer hovered, after the track had
\* already moved.
C2_Witness ==
  /\ hovering
  /\ lastStep # <<>>
  /\ lastStep.hovering
  /\ ~lastStep.wrapped
  /\ offset < 0
  /\ transform = Defined(offset)

\* C3: no handler raises an error because an element it looks up is missing
\* (a TypeError from using null), in either version.
C3_MissingElementsAreSkipped == error # "TypeError"

\* C4: once the carousel is set up there is in every state exactly one pending
\* animation-frame callback, the one for step, so that step can run on the
\* next frame; no handler adds or removes one.
C4_OnePendingFrame ==
  carouselRunning => (rafQueue = <<"step">> /\ ENABLED step(lastTime))

\* C4 witness: frames have run, the half-width was re-measured, the pointer
\* hovers and the sidebar was toggled, with one callback pending.
C4_Witness ==
  /\ carouselRunning
  /\ lastStep # <<>>
  /\ lastStep.wrapped
  /\ hovering
  /\ open
  /\ scrollDest > 0
  /\ rafQueue = <<"step">>

\* C5: in version 2, after a single resolved nav-link click and its delayed
\* adjustment, the page at rest has the target's top edge exactly the click's
\* offset below the top of the viewport.
C5_TargetRestsAtOffset ==
  (version = 2 /\ Len(scheduled) = 1 /\ timers = <<>> /\ scrollY = scrollDest)
    => rectTop(scheduled[1].href) = scheduled[1].offset

\* C6: every resolved nav-link click schedules exactly one adjustment, none is
\* cancelled or replaced, a pending adjustment can always run, and each one
\* that ran applied the offset captured at its own click; adjustments run in
\* order for as long as one is pending, so each of them eventually runs.
C6_OneAdjustmentPerClick ==
  /\ [](scheduled = fired \o timers)
  /\ [](timers # <<>> => ENABLED timeout)
  /\ ([]<><<timeout>>_vars \/ <>[](timers = <<>>))

\* C6 witness: two clicks with different captured offsets, the first
\* adjustment has run while the second is still pending.
C6_Witness ==
  /\ Len(fired) = 1
  /\ Len(timers) = 1
  /\ fired[1].offset # timers[1].offset

\* C7: when the sidebar exists it is open exactly when an odd number of toggle
\* clicks happened since page load or the last nav-link click that resolved to
\* a target.
C7_OpenIffOddToggles == sidebarExists => (open <=> toggles = 1)

\* C7 witness: the sidebar was opened and closed again with an adjustment
\* pending, and is open once more.
C7_Witness ==
  /\ sidebarExists
  /\ open
  /\ timers # <<>>
  /\ hash # ""

\* C8: setup appends the image list twice, in order, when the track exists and
\* the list is non-empty; otherwise it appends nothing, requests no frame and
\* registers no resize or hover listener.
C8_SetupDuplicatesImages ==
  LET list == imagesOrEmpty(images)
      n == Len(list) IN
  IF carouselRunning
  THEN /\ Len(trackItems) = 2 * n
       /\ \A i \in 1..n : trackItems[i] = list[i] /\ trackItems[i + n] = list[i]
       /\ {"resize", "mouseenter", "mouseleave"} \subseteq listeners
  ELSE /\ trackItems = <<>>
       /\ rafQueue = <<>>
       /\ listeners \cap {"resize", "mouseenter", "mouseleave"} = {}

\* C8 witness: the track holds two copies of a list of two different URLs.
C8_Witness ==
  /\ carouselRunning
  /\ Len(trackItems) = 4
  /\ trackItems[1] # trackItems[2]
  /\ lastStep # <<>>

\* C9: with a positive half-width that is never re-measured and frames that
\* advance by less than it, -halfWidth < offset <= 0 after every step.
C9_SteadyOffsetRange ==
  carouselRunning => (-halfWidth < offset /\ offset <= 0)

\* C9 witness: a frame has wrapped the offset back.
C9_Witness ==
  /\ carouselRunning
  /\ lastStep # <<>>
  /\ lastStep.wrapped
  /\ halfWidth > 1

\* C10: the delayed adjustments run in click order, so once none is pending
\* the hash is the href of the most recent resolved click; only an adjustment
\* changes the hash, never a click.
C10_HashFollowsLastClick ==
  /\ []((timers = <<>> /\ scheduled # <<>>) => hash = scheduled[Len(scheduled)].href)
  /\ [][hash' # hash => (timers # <<>> /\ timers' = Tail(timers)
                          /\ hash' = Head(timers).href)]_vars

\* C10 witness: two clicks on different links, both adjustments pending at
\* once, both run.
C10_Witness ==
  /\ Len(fired) = 2
  /\ timers = <<>>
  /\ fired[1].href # fired[2].href
  /\ hash = fired[2].href

====
